---- MODULE Spec2Model ----
(***************************************************************************)
(* Quiz / exam generation, grading and sharing workflow of the LogeekMind  *)
(* backend: the question validators, calculate_grade, the per-router guest *)
(* usage trackers and the shared exam / shared quiz submission paths.      *)
(*                                                                         *)
(* Text is a sequence of one-character strings, so that strip, lower,      *)
(* upper, capitalize, startswith and "in" are computed as Python computes  *)
(* them.  A JSON value is a record [k, v]: k is its kind ("str", "none",   *)
(* "int", "list") and v its content.  A dict is a function whose DOMAIN is *)
(* the set of its keys.                                                    *)
(***************************************************************************)
EXTENDS Integers, Sequences, FiniteSets, TLC

VARIABLES
    raw_batch,        \* validator: the decoded AI batch as it was received (history)
    batch,            \* validator: the list object passed in, rewritten in place
    fixed_batch,      \* validator: the list the validator returned
    vpc,              \* validator: which validator has run
    rerun,            \* validator: what a second call on the same list gave
    compare_in,       \* comparison: <<share id, current_score_percentage>>
    compare_out,      \* comparison: the dict the comparison returned
    grade_in,         \* calculate_grade: <<score, total>>
    grade_out,        \* calculate_grade: the tuples both versions returned
    exam_tracker,     \* routers/exam_simulator.py guest_usage_tracker
    quiz_tracker,     \* routers/smart_quiz.py guest_usage_tracker
    teacher_tracker,  \* routers/ai_teacher.py guest_usage_tracker
    pending,          \* requests suspended at the await of their service call
    response,         \* the HTTP response sent last
    shared_exams,     \* table shared_exams
    shared_quizzes,   \* table shared_quizzes
    exam_submissions, \* table shared_exam_submissions
    quiz_submissions, \* table shared_quiz_submissions
    calls,            \* history: requests received, by kind
    guest_calls,      \* history: anonymous requests received, by feature
    admitted,         \* history: anonymous requests let past the tracker, by feature
    submit_calls      \* history: submit calls served by persistence, by table and token

vars == <<raw_batch, batch, fixed_batch, vpc, rerun, compare_in, compare_out,
          grade_in, grade_out, exam_tracker,
          quiz_tracker, teacher_tracker, pending, response, shared_exams,
          shared_quizzes, exam_submissions, quiz_submissions, calls,
          guest_calls, admitted, submit_calls>>

validator_vars == <<raw_batch, batch, fixed_batch, vpc, rerun>>
grade_vars == <<grade_in, grade_out, compare_in, compare_out>>
tracker_vars == <<exam_tracker, quiz_tracker, teacher_tracker>>
table_vars == <<shared_exams, shared_quizzes, exam_submissions, quiz_submissions>>
flow_vars == <<tracker_vars, pending, response, table_vars, calls, guest_calls,
               admitted, submit_calls>>

-----------------------------------------------------------------------------
(* Python str operations on sequences of characters.                       *)

UpperChars == <<"A","B","C","D","E","F","G","H","I","J","K","L","M",
                "N","O","P","Q","R","S","T","U","V","W","X","Y","Z">>

LowerChars == <<"a","b","c","d","e","f","g","h","i","j","k","l","m",
                "n","o","p","q","r","s","t","u","v","w","x","y","z">>

ToLower == [c \in {UpperChars[i] : i \in 1..26} |->
               LowerChars[CHOOSE i \in 1..26 : UpperChars[i] = c]]

ToUpper == [c \in {LowerChars[i] : i \in 1..26} |->
               UpperChars[CHOOSE i \in 1..26 : LowerChars[i] = c]]

lower_char(c) == IF c \in DOMAIN ToLower THEN ToLower[c] ELSE c

upper_char(c) == IF c \in DOMAIN ToUpper THEN ToUpper[c] ELSE c

lower(s) == [i \in 1..Len(s) |-> lower_char(s[i])]

upper(s) == [i \in 1..Len(s) |-> upper_char(s[i])]

capitalize(s) ==
    [i \in 1..Len(s) |-> IF i = 1 THEN upper_char(s[i]) ELSE lower_char(s[i])]

is_space(c) == c \in {" ", "\n", "\t"}

strip(s) ==
    LET keep == {i \in 1..Len(s) : ~is_space(s[i])}
    IN  IF keep = {} THEN <<>>
        ELSE SubSeq(s, CHOOSE i \in keep : \A j \in keep : i <= j,
                       CHOOSE i \in keep : \A j \in keep : j <= i)

\* Python's "sub in s" on str.
contains(sub, s) ==
    \E i \in 0..(Len(s) - Len(sub)) : SubSeq(s, i + 1, i + Len(sub)) = sub

startswith(s, prefix) ==
    Len(prefix) <= Len(s) /\ SubSeq(s, 1, Len(prefix)) = prefix

\* chr(65 + option_idx) for the option indexes a 4-option list has.
chr65(option_idx) == UpperChars[option_idx + 1]

-----------------------------------------------------------------------------
(* JSON values and dicts.                                                  *)

Str(s) == [k |-> "str", v |-> s]
NoneV == [k |-> "none", v |-> <<>>]
IntV == [k |-> "int", v |-> <<>>]
ListV(l) == [k |-> "list", v |-> l]

has_key(d, key) == key \in DOMAIN d

dict_set(d, key, value) ==
    [x \in DOMAIN d \cup {key} |-> IF x = key THEN value ELSE d[x]]

dict_get(d, key, default) == IF key \in DOMAIN d THEN d[key] ELSE default

RequiredKeys == {"question", "options", "answer", "explanation"}

-----------------------------------------------------------------------------
(* The validators.  Each returns, per question, either the question with   *)
(* its answer rewritten, or a skip (a failed check or a caught exception). *)

Skip == [ok |-> FALSE, q |-> <<>>]
Keep(q) == [ok |-> TRUE, q |-> q]

\* A loop without its break: the last matching option wins.
scan_options_last(answer, options, i) ==
    LET hits == { k \in i..Len(options) :
                    /\ options[k].k = "str"
                    /\ \/ lower(answer) = lower(options[k].v)
                       \/ contains(answer, options[k].v)
                       \/ contains(options[k].v, answer) }
    IN  IF hits = {} THEN 0
        ELSE CHOOSE k \in hits : \A other \in hits : other <= k

\* A default that names the last label instead of the first.
default_last_label(options) ==
    IF Len(options) = 4 THEN <<"D">> ELSE <<"F","a","l","s","e">>

\* "question['answer'] = 'A' if len(question['options']) == 4 else 'True'"
default_label(options) ==
    IF Len(options) = 4 THEN <<"A">> ELSE <<"T","r","u","e">>

\* The for loop over the options: the index of the first matching option,
\* 0 when none matches, -1 when option_text.lower() raises on a non-str.
RECURSIVE scan_options(_, _, _)
scan_options(answer, options, i) ==
    IF i > Len(options) THEN 0
    ELSE IF options[i].k # "str" THEN -1
    ELSE IF \/ lower(answer) = lower(options[i].v)
            \/ contains(answer, options[i].v)
            \/ contains(options[i].v, answer)
         THEN i
         ELSE scan_options(answer, options, i + 1)

quiz_fix_question(question) ==
    IF ~(\A key \in RequiredKeys : has_key(question, key)) THEN Skip
    ELSE IF question["options"].k # "list"
            \/ Len(question["options"].v) \notin {2, 4} THEN Skip
    ELSE IF question["answer"].k # "str" THEN Skip   \* .strip() raises
    ELSE
      LET options == question["options"].v
          answer == strip(question["answer"].v)
      IN  IF Len(answer) = 1 /\ upper(answer) \in {<<"A">>, <<"B">>, <<"C">>, <<"D">>}
          THEN Keep(dict_set(question, "answer", Str(upper(answer))))
          ELSE IF lower(answer) \in {<<"t","r","u","e">>, <<"f","a","l","s","e">>}
          THEN Keep(dict_set(question, "answer", Str(capitalize(answer))))
          ELSE
            LET hit == scan_options(answer, options, 1)
            IN  IF hit = -1 THEN Skip
                ELSE IF hit > 0
                THEN IF Len(options) = 4
                     THEN Keep(dict_set(question, "answer", Str(<<chr65(hit - 1)>>)))
                     ELSE Keep(dict_set(question, "answer",
                                        Str(capitalize(options[hit].v))))
                ELSE Keep(dict_set(question, "answer", Str(default_label(options))))

exam_fix_question(question) ==
    IF ~(\A key \in RequiredKeys :
            dict_get(question, key, NoneV).k # "none") THEN Skip
    ELSE IF question["options"].k # "list"
            \/ Len(question["options"].v) # 4 THEN Skip
    ELSE IF question["answer"].k # "str" THEN Skip   \* .strip() raises
    ELSE
      LET options == question["options"].v
          answer == strip(question["answer"].v)
      IN  IF Len(answer) = 1 /\ upper(answer) \in {<<"A">>, <<"B">>, <<"C">>, <<"D">>}
          THEN Keep(dict_set(question, "answer", Str(upper(answer))))
          ELSE
            LET hit == scan_options(answer, options, 1)
            IN  IF hit = -1 THEN Skip
                ELSE IF hit > 0
                THEN Keep(dict_set(question, "answer", Str(<<chr65(hit - 1)>>)))
                ELSE Keep(dict_set(question, "answer", Str(<<"A">>)))

\* A validator that gives up on the whole batch at the first bad question.
validate_all_or_nothing(quiz_data) ==
    IF \E i \in 1..Len(quiz_data) : ~quiz_fix_question(quiz_data[i]).ok THEN <<>>
    ELSE [i \in 1..Len(quiz_data) |-> quiz_fix_question(quiz_data[i]).q]

RECURSIVE validate_and_fix_quiz_questions(_)
validate_and_fix_quiz_questions(quiz_data) ==
    IF quiz_data = <<>> THEN <<>>
    ELSE LET r == quiz_fix_question(Head(quiz_data))
         IN  (IF r.ok THEN <<r.q>> ELSE <<>>)
             \o validate_and_fix_quiz_questions(Tail(quiz_data))

RECURSIVE validate_and_fix_exam_questions(_)
validate_and_fix_exam_questions(exam_data) ==
    IF exam_data = <<>> THEN <<>>
    ELSE LET r == exam_fix_question(Head(exam_data))
         IN  (IF r.ok THEN <<r.q>> ELSE <<>>)
             \o validate_and_fix_exam_questions(Tail(exam_data))

\* The questions of the list object after the call: an accepted question is
\* the same dict object as the one appended, so it shows the rewritten answer.
RECURSIVE quiz_in_place(_)
quiz_in_place(quiz_data) ==
    IF quiz_data = <<>> THEN <<>>
    ELSE LET r == quiz_fix_question(Head(quiz_data))
         IN  <<IF r.ok THEN r.q ELSE Head(quiz_data)>>
             \o quiz_in_place(Tail(quiz_data))

RECURSIVE exam_in_place(_)
exam_in_place(exam_data) ==
    IF exam_data = <<>> THEN <<>>
    ELSE LET r == exam_fix_question(Head(exam_data))
         IN  <<IF r.ok THEN r.q ELSE Head(exam_data)>>
             \o exam_in_place(Tail(exam_data))

-----------------------------------------------------------------------------
(* calculate_grade, both versions.  A float percentage is the exact        *)
(* rational [num, den] in lowest terms; within the totals checked here the *)
(* float results of (score / total) * 100 and of round(..., 2) compare     *)
(* with the thresholds and print exactly as these rationals do.            *)

RECURSIVE gcd(_, _)
gcd(a, b) == IF b = 0 THEN a ELSE gcd(b, a % b)

Frac(n, d) == LET g == gcd(n, d) IN [num |-> n \div g, den |-> d \div g]

\* percentage > n, the exclusive bound.
pct_above(p, n) == p.num > n * p.den

pct_geq(p, n) == p.num >= n * p.den

pct_gt(p, q) == p.num * q.den > q.num * p.den

\* round((score / total) * 100, 2): hundredths, ties to even.
round2(score, total) ==
    LET q == (score * 10000) \div total
        r == (score * 10000) % total
        h == IF 2 * r < total THEN q
             ELSE IF 2 * r > total THEN q + 1
             ELSE IF q % 2 = 0 THEN q ELSE q + 1
    IN  Frac(h, 100)

grade_for(percentage) ==
    IF pct_geq(percentage, 70)
    THEN <<"A", "Excellent! Distinction level.", percentage>>
    ELSE IF pct_geq(percentage, 60)
    THEN <<"B", "Very Good. Keep it up.", percentage>>
    ELSE IF pct_geq(percentage, 50)
    THEN <<"C", "Credit. You passed, but barely.", percentage>>
    ELSE IF pct_geq(percentage, 45)
    THEN <<"D", "Pass. You need to study more.", percentage>>
    ELSE IF pct_geq(percentage, 40)
    THEN <<"E", "Weak Pass. Dangerous territory.", percentage>>
    ELSE <<"F", "Fail. You are not ready for this exam.", percentage>>

\* A grading that goes through the thresholds with a total of zero.
grade_unguarded(score, total) ==
    IF total = 0 THEN grade_for(Frac(0, 1)) ELSE grade_for(round2(score, total))

quiz_calculate_grade(score, total) ==
    IF total = 0 THEN <<"N/A", "No questions graded.", Frac(0, 1)>>
    ELSE grade_for(round2(score, total))

exam_calculate_grade(score, total) ==
    IF total = 0 THEN <<"N/A", "No questions graded.", Frac(0, 1)>>
    ELSE grade_for(Frac(score * 100, total))

-----------------------------------------------------------------------------
(* Bounds and input sets.                                                  *)

MaxBatch == 2
MaxTotal == 14

Q(answer, options, explanation) ==
    [key \in RequiredKeys |->
        CASE key = "question" -> Str(<<"q">>)
          [] key = "options" -> options
          [] key = "answer" -> answer
          [] OTHER -> explanation]

without_key(d, key) == [x \in DOMAIN d \ {key} |-> d[x]]

Opts4 == ListV(<<Str(<<"c","a","t">>), Str(<<"d","o","g">>),
                 Str(<<"a","n","t">>), Str(<<"b","e","e">>)>>)
OptsTF == ListV(<<Str(<<"T","r","u","e">>), Str(<<"F","a","l","s","e">>)>>)
OptsYN == ListV(<<Str(<<"Y","e","s">>), Str(<<"N","o">>)>>)
Opts3 == ListV(<<Str(<<"c","a","t">>), Str(<<"d","o","g">>), Str(<<"a","n","t">>)>>)
OptsIntFirst == ListV(<<IntV, Str(<<"d","o","g">>),
                        Str(<<"a","n","t">>), Str(<<"b","e","e">>)>>)
OptsIntLast == ListV(<<Str(<<"c","a","t">>), Str(<<"d","o","g">>),
                       Str(<<"a","n","t">>), IntV>>)

TextAnswers ==
    { <<"B">>, <<"c">>, <<" ","d"," ">>, <<"t","r","u","e">>,
      <<"F","A","L","S","E">>, <<"t">>, <<"D","O","G">>, <<"x","y","z">>,
      <<"n","o">>, <<>> }

OptsCase == ListV(<<Str(<<"a","t">>), Str(<<"C","A","T">>)>>)

Expl == Str(<<"e">>)

WellFormedQuestions ==
    { Q(Str(a), o, Expl) : a \in TextAnswers, o \in {Opts4, OptsTF, OptsYN} }

MalformedQuestions ==
    { without_key(Q(Str(<<"B">>), Opts4, Expl), "explanation"),
      without_key(Q(Str(<<"B">>), Opts4, Expl), "answer"),
      Q(Str(<<"B">>), Opts4, NoneV),
      Q(Str(<<"B">>), Opts4, Str(<<>>)),
      Q(Str(<<"B">>), Opts3, Expl),
      Q(Str(<<"B">>), Str(<<"c","a","t">>), Expl),
      Q(NoneV, Opts4, Expl),
      Q(IntV, Opts4, Expl),
      Q(Str(<<"d","o","g">>), OptsIntFirst, Expl),
      Q(Str(<<"c","a","t">>), OptsIntLast, Expl) }

\* An answer that is, letter for letter, the second of two options.
CaseQuestions == { Q(Str(<<"C","A","T">>), OptsCase, Expl) }

RawQuestions == WellFormedQuestions \cup MalformedQuestions \cup CaseQuestions

\* Five questions told apart by their explanations; the third has none.
FiveBatch ==
    << Q(Str(<<"B">>), Opts4, Str(<<"e","1">>)),
       Q(Str(<<"c">>), Opts4, Str(<<"e","2">>)),
       without_key(Q(Str(<<"D">>), Opts4, Expl), "explanation"),
       Q(Str(<<"D","O","G">>), Opts4, Str(<<"e","4">>)),
       Q(Str(<<"x","y","z">>), Opts4, Str(<<"e","5">>)) >>

RawBatches == UNION { [1..n -> RawQuestions] : n \in 1..MaxBatch } \cup {FiveBatch}

GradeInputs ==
    { <<s, t>> : s \in 0..MaxTotal, t \in 0..MaxTotal }
        \cup { <<6999, 10000>>, <<454, 1009>> }

EmptyDict == [x \in {} |-> 0]

NoRerun == [fixed_batch |-> <<>>, batch |-> <<>>]

IdleValidator ==
    /\ raw_batch = <<>> /\ batch = <<>> /\ fixed_batch = <<>> /\ vpc = "idle"
    /\ rerun = NoRerun

IdleCompare == compare_in = <<0, Frac(0, 1)>> /\ compare_out = EmptyDict

IdleGrade == grade_in = <<0, 0>> /\ grade_out = <<>> /\ IdleCompare

Features == {"exam", "quiz", "teacher"}

NoResponse ==
    [route |-> "", status |-> 0, detail |-> "", share_id |-> 0, data |-> <<>>,
     score |-> 0, total_questions |-> 0, grade |-> "", remark |-> "",
     submission_id |-> 0]

IdleFlow ==
    /\ exam_tracker = EmptyDict /\ quiz_tracker = EmptyDict
    /\ teacher_tracker = EmptyDict
    /\ pending = EmptyDict /\ response = NoResponse
    /\ shared_exams = <<>> /\ shared_quizzes = <<>>
    /\ exam_submissions = <<>> /\ quiz_submissions = <<>>
    /\ calls = [gen |-> 0, submit |-> 0]
    /\ guest_calls = [f \in Features |-> 0]
    /\ admitted = [f \in Features |-> 0]
    /\ submit_calls = EmptyDict

-----------------------------------------------------------------------------
(* The validators applied to a decoded batch.                              *)

InitValidator ==
    /\ raw_batch \in RawBatches
    /\ batch = raw_batch
    /\ fixed_batch = <<>>
    /\ vpc = "raw"
    /\ rerun = NoRerun
    /\ IdleGrade /\ IdleFlow

ValidateQuiz ==
    /\ vpc = "raw"
    /\ fixed_batch' = validate_and_fix_quiz_questions(batch)
    /\ batch' = quiz_in_place(batch)
    /\ vpc' = "quiz"
    /\ UNCHANGED <<raw_batch, rerun, grade_vars, flow_vars>>

ValidateExam ==
    /\ vpc = "raw"
    /\ fixed_batch' = validate_and_fix_exam_questions(batch)
    /\ batch' = exam_in_place(batch)
    /\ vpc' = "exam"
    /\ UNCHANGED <<raw_batch, rerun, grade_vars, flow_vars>>

\* The validator called once more on the list it has rewritten in place.
RevalidateQuiz ==
    /\ vpc = "quiz"
    /\ rerun' = [fixed_batch |-> validate_and_fix_quiz_questions(batch),
                 batch |-> quiz_in_place(batch)]
    /\ vpc' = "quiz_again"
    /\ UNCHANGED <<raw_batch, batch, fixed_batch, grade_vars, flow_vars>>

RevalidateExam ==
    /\ vpc = "exam"
    /\ rerun' = [fixed_batch |-> validate_and_fix_exam_questions(batch),
                 batch |-> exam_in_place(batch)]
    /\ vpc' = "exam_again"
    /\ UNCHANGED <<raw_batch, batch, fixed_batch, grade_vars, flow_vars>>

NextValidator == ValidateQuiz \/ ValidateExam \/ RevalidateQuiz \/ RevalidateExam

SpecValidator == InitValidator /\ [][NextValidator]_vars

-----------------------------------------------------------------------------
(* calculate_grade applied to a score and a total.                         *)

InitGrade ==
    /\ grade_in \in GradeInputs
    /\ grade_in[1] <= grade_in[2]
    /\ grade_out = <<>>
    /\ IdleCompare /\ IdleValidator /\ IdleFlow

CalculateGrade ==
    /\ grade_out = <<>>
    /\ grade_out' = [quiz |-> quiz_calculate_grade(grade_in[1], grade_in[2]),
                     exam |-> exam_calculate_grade(grade_in[1], grade_in[2])]
    /\ UNCHANGED <<grade_in, compare_in, compare_out, validator_vars, flow_vars>>

NextGrade == CalculateGrade

SpecGrade == InitGrade /\ [][NextGrade]_vars

-----------------------------------------------------------------------------
(* Identities, the guest trackers and what the external services return.   *)

EXAM_GUEST_LIMIT == 1
QUIZ_GUEST_LIMIT == 1
TEACHER_GUEST_LIMIT == 2
PromptPrefixLen == 20

GuestPrefix == <<"g","u","e","s","t","_">>

GuestExamId ==
    GuestPrefix \o <<"e","x","a","m","_","s","i","m","u","l","a","t","o","r",
                     "_","g","e","n","e","r","a","t","e">>

GuestQuizId == GuestPrefix \o <<"s","m","a","r","t","_","q","u","i","z">>

GuestTeacherId(current_prompt) ==
    GuestPrefix \o <<"a","i","_","t","e","a","c","h","e","r","_">>
    \o SubSeq(current_prompt, 1,
              IF Len(current_prompt) < PromptPrefixLen
              THEN Len(current_prompt) ELSE PromptPrefixLen)

\* Registered users' ids are the auth service's UUIDs.
UserIds == { <<"7","f","3","a">> }

CurrentUsers == {NoneV} \cup { Str(u) : u \in UserIds }

\* usage > limit, the comparison that lets one request too many through.
guest_denied_past_limit(usage, limit) == usage > limit

\* "if usage >= GUEST_LIMIT: raise HTTPException(429)"
guest_denied(usage, limit) == usage >= limit

\* A write that stores the count it read.
guest_same_usage(usage) == usage

\* "guest_usage_tracker[guest_id] = usage + 1"
guest_next_usage(usage) == usage + 1

\* A service without the guest check.
share_never_rejected(user_id, is_sharable) == FALSE

\* "if is_sharable and user_id.startswith('guest_')"
guest_share_rejected(user_id, is_sharable) ==
    is_sharable /\ startswith(user_id, GuestPrefix)

\* "if is_sharable:" before the insert into the shared table.
wants_share(is_sharable) == is_sharable

AIBatchMC ==
    << Q(Str(<<"B">>), Opts4, Expl), Q(Str(<<"c">>), Opts4, Expl),
       Q(Str(<<"D","O","G">>), Opts4, Expl), Q(Str(<<"x","y","z">>), Opts4, Expl) >>

AIBatchTF ==
    << Q(Str(<<"t","r","u","e">>), OptsTF, Expl), Q(Str(<<"t">>), Opts4, Expl) >>

AIBatchBad ==
    << Q(IntV, Opts4, Expl),
       without_key(Q(Str(<<"B">>), Opts4, Expl), "explanation") >>

AIBatches == {AIBatchMC, AIBatchTF, AIBatchBad}

\* What the chat-completion call ends in: text that is no JSON, or a decoded
\* list.  (No model answering and a Groq error end as invalid JSON does, in
\* `success: False` with another message.)
AIOutcomes ==
    { [kind |-> "invalid_json", batch |-> <<>>] }
    \cup { [kind |-> "list", batch |-> b] : b \in AIBatches }

GoodAIOutcomes == { [kind |-> "list", batch |-> b] : b \in {AIBatchMC, AIBatchTF} }

\* A service that persists whatever the validator returned.
always_survivors(data) == FALSE

\* "if not exam_data:" / "if not quiz_data:" after validation.
no_survivors(data) == data = <<>>

ServiceFail(message) ==
    [success |-> FALSE, raised |-> FALSE, message |-> message, data |-> <<>>,
     share_id |-> 0, insert |-> <<>>]

ServiceRaise == [ServiceFail("") EXCEPT !.raised = TRUE]

truthy_text(value) == value.k = "str" /\ value.v # <<>>

generate_exam_questions(user_id, course_name, topic, is_sharable, ai, db_ok, new_id) ==
    IF course_name = <<>> THEN ServiceFail("Course Name is required.")
    ELSE IF ~truthy_text(topic)
    THEN ServiceFail("Either a topic or lecture notes must be provided.")
    ELSE IF guest_share_rejected(user_id, is_sharable)
    THEN ServiceFail("Guest users cannot create sharable exams. Please log in to use this feature.")
    ELSE IF ai.kind = "invalid_json"
    THEN ServiceFail("AI generated an invalid exam format. Please try generating again.")
    ELSE
      LET exam_data == validate_and_fix_exam_questions(ai.batch)
          saved == wants_share(is_sharable) /\ db_ok
      IN  IF no_survivors(exam_data)
          THEN ServiceFail("AI generated invalid questions. Please try again.")
          ELSE [success |-> TRUE, raised |-> FALSE, message |-> "",
                data |-> exam_data,
                share_id |-> IF saved THEN new_id ELSE 0,
                insert |-> IF saved
                           THEN <<[id |-> new_id, creator_id |-> user_id,
                                   data |-> exam_data]>>
                           ELSE <<>>]

generate_quiz_service(user_id, quiz_topic, difficulty, is_sharable, ai, db_ok, new_id) ==
    IF quiz_topic = <<>> THEN ServiceFail("Quiz topic is required.")
    ELSE IF guest_share_rejected(user_id, is_sharable)
    THEN ServiceFail("Guest users cannot create sharable quizzes. Please log in.")
    ELSE IF difficulty \notin 1..5 THEN ServiceRaise   \* DIFFICULTY_MAP[difficulty]
    ELSE IF ai.kind = "invalid_json"
    THEN ServiceFail("AI returned an invalid quiz format. Try again.")
    ELSE
      LET quiz_data == validate_and_fix_quiz_questions(ai.batch)
          saved == wants_share(is_sharable) /\ db_ok
      IN  IF no_survivors(quiz_data)
          THEN ServiceFail("AI generated invalid questions. Please try again.")
          ELSE [success |-> TRUE, raised |-> FALSE, message |-> "",
                data |-> quiz_data,
                share_id |-> IF saved THEN new_id ELSE 0,
                insert |-> IF saved
                           THEN <<[id |-> new_id, creator_id |-> user_id,
                                   data |-> quiz_data]>>
                           ELSE <<>>]

-----------------------------------------------------------------------------
(* The generation and chat routes.  A route runs from its first line to    *)
(* the await of its service call in one step (no await lies between the    *)
(* tracker's read and its write) and is resumed in a second step.          *)

Request(feature, user_id, name, topic, difficulty, is_sharable) ==
    [feature |-> feature, user_id |-> user_id, name |-> name,
     topic |-> topic, difficulty |-> difficulty, is_sharable |-> is_sharable]

Bump(counter, key) == [counter EXCEPT ![key] = @ + 1]

\* pending is a bag: a dict from a suspended request to how many of it wait.
suspend(bag, p) == dict_set(bag, p, dict_get(bag, p, 0) + 1)

resume(bag, p) ==
    IF bag[p] = 1 THEN without_key(bag, p) ELSE dict_set(bag, p, bag[p] - 1)

Suspended(feature) == { p \in DOMAIN pending : p.feature = feature }

HttpError(route, status, detail) ==
    [NoResponse EXCEPT !.route = route, !.status = status, !.detail = detail]

GenerateOk(route, r) ==
    [NoResponse EXCEPT !.route = route, !.status = 200, !.data = r.data,
                       !.share_id = r.share_id]

generate_exam_route(current_user, course_name, topic, is_sharable) ==
    LET usage == dict_get(exam_tracker, GuestExamId, 0)
    IN  /\ calls' = Bump(calls, "gen")
        /\ IF current_user.k # "none"
           THEN /\ pending' = suspend(pending,
                     Request("exam", current_user.v, course_name, topic, 0,
                              is_sharable))
                /\ UNCHANGED <<exam_tracker, response, guest_calls, admitted>>
           ELSE /\ guest_calls' = Bump(guest_calls, "exam")
                /\ IF guest_denied(usage, EXAM_GUEST_LIMIT)
                   THEN /\ response' = HttpError("exam_generate", 429,
                               "Guest limit of 1 exam generations exceeded. Please log in for unlimited access.")
                        /\ UNCHANGED <<exam_tracker, pending, admitted>>
                   ELSE /\ exam_tracker' = dict_set(exam_tracker, GuestExamId,
                                                    guest_next_usage(usage))
                        /\ pending' = suspend(pending,
                             Request("exam", GuestExamId, course_name, topic, 0,
                                      is_sharable))
                        /\ admitted' = Bump(admitted, "exam")
                        /\ UNCHANGED response
        /\ UNCHANGED <<quiz_tracker, teacher_tracker, table_vars, submit_calls,
                       validator_vars, grade_vars>>

\* A handler that gives a guest the unit back when generation fails.
generate_exam_route_refund(p, ai, db_ok) ==
    LET r == generate_exam_questions(p.user_id, p.name, p.topic, p.is_sharable,
                                     ai, db_ok, Len(shared_exams) + 1)
    IN  /\ p \in Suspended("exam")
        /\ pending' = resume(pending, p)
        /\ shared_exams' = shared_exams \o r.insert
        /\ response' = IF r.success THEN GenerateOk("exam_generate", r)
                       ELSE HttpError("exam_generate", 400, r.message)
        /\ exam_tracker' =
              IF ~r.success /\ startswith(p.user_id, GuestPrefix)
              THEN dict_set(exam_tracker, GuestExamId,
                            dict_get(exam_tracker, GuestExamId, 0) - 1)
              ELSE exam_tracker
        /\ UNCHANGED <<quiz_tracker, teacher_tracker, shared_quizzes,
                       exam_submissions, quiz_submissions, calls, guest_calls,
                       admitted, submit_calls, validator_vars, grade_vars>>

generate_exam_route_resume(p, ai, db_ok) ==
    LET r == generate_exam_questions(p.user_id, p.name, p.topic, p.is_sharable,
                                     ai, db_ok, Len(shared_exams) + 1)
    IN  /\ p \in Suspended("exam")
        /\ pending' = resume(pending, p)
        /\ shared_exams' = shared_exams \o r.insert
        /\ response' = IF r.success THEN GenerateOk("exam_generate", r)
                       ELSE HttpError("exam_generate", 400, r.message)
        /\ UNCHANGED <<tracker_vars, shared_quizzes, exam_submissions,
                       quiz_submissions, calls, guest_calls, admitted,
                       submit_calls, validator_vars, grade_vars>>

generate_quiz_route(current_user, quiz_topic, difficulty, is_sharable) ==
    LET usage == dict_get(quiz_tracker, GuestQuizId, 0)
    IN  /\ calls' = Bump(calls, "gen")
        /\ IF current_user.k # "none"
           THEN /\ pending' = suspend(pending,
                     Request("quiz", current_user.v, quiz_topic, NoneV,
                              difficulty, is_sharable))
                /\ UNCHANGED <<quiz_tracker, response, guest_calls, admitted>>
           ELSE /\ guest_calls' = Bump(guest_calls, "quiz")
                /\ IF guest_denied(usage, QUIZ_GUEST_LIMIT)
                   THEN /\ response' = HttpError("quiz_generate", 429,
                               "Guest limit exceeded. Please log in or sign up for unlimited access.")
                        /\ UNCHANGED <<quiz_tracker, pending, admitted>>
                   ELSE /\ quiz_tracker' = dict_set(quiz_tracker, GuestQuizId,
                                                    guest_next_usage(usage))
                        /\ pending' = suspend(pending,
                             Request("quiz", GuestQuizId, quiz_topic, NoneV,
                                      difficulty, is_sharable))
                        /\ admitted' = Bump(admitted, "quiz")
                        /\ UNCHANGED response
        /\ UNCHANGED <<exam_tracker, teacher_tracker, table_vars, submit_calls,
                       validator_vars, grade_vars>>

generate_quiz_route_resume(p, ai, db_ok) ==
    LET r == generate_quiz_service(p.user_id, p.name, p.difficulty, p.is_sharable,
                                   ai, db_ok, Len(shared_quizzes) + 1)
    IN  /\ p \in Suspended("quiz")
        /\ pending' = resume(pending, p)
        /\ shared_quizzes' = shared_quizzes \o r.insert
        /\ response' =
             IF r.raised
             THEN HttpError("quiz_generate", 500,
                            "An unexpected error occurred during quiz generation.")
             ELSE IF r.success THEN GenerateOk("quiz_generate", r)
             ELSE HttpError("quiz_generate", 400, r.message)
        /\ UNCHANGED <<tracker_vars, shared_exams, exam_submissions,
                       quiz_submissions, calls, guest_calls, admitted,
                       submit_calls, validator_vars, grade_vars>>

ai_teacher_chat_route(current_user, current_prompt) ==
    LET guest_id == GuestTeacherId(current_prompt)
        usage == dict_get(teacher_tracker, guest_id, 0)
    IN  /\ calls' = Bump(calls, "gen")
        /\ IF current_user.k # "none"
           THEN /\ pending' = suspend(pending,
                     Request("teacher", current_user.v, <<>>, NoneV, 0, FALSE))
                /\ UNCHANGED <<teacher_tracker, response, guest_calls, admitted>>
           ELSE /\ guest_calls' = Bump(guest_calls, "teacher")
                /\ IF guest_denied(usage, TEACHER_GUEST_LIMIT)
                   THEN /\ response' = HttpError("teacher_chat", 429,
                               "Guest limit of 2 uses exceeded. Please log in for unlimited access.")
                        /\ UNCHANGED <<teacher_tracker, pending, admitted>>
                   ELSE /\ teacher_tracker' = dict_set(teacher_tracker, guest_id,
                                                       guest_next_usage(usage))
                        /\ pending' = suspend(pending,
                             Request("teacher", guest_id, <<>>, NoneV, 0, FALSE))
                        /\ admitted' = Bump(admitted, "teacher")
                        /\ UNCHANGED response
        /\ UNCHANGED <<exam_tracker, quiz_tracker, table_vars, submit_calls,
                       validator_vars, grade_vars>>

ai_teacher_chat_route_resume(p, service_ok) ==
    /\ p \in Suspended("teacher")
    /\ pending' = resume(pending, p)
    /\ response' = IF service_ok
                   THEN [NoResponse EXCEPT !.route = "teacher_chat", !.status = 200]
                   ELSE HttpError("teacher_chat", 400, "The AI teacher could not answer.")
    /\ UNCHANGED <<tracker_vars, table_vars, calls, guest_calls, admitted,
                   submit_calls, validator_vars, grade_vars>>

-----------------------------------------------------------------------------
(* Generation and guest limiting under concurrent requests.                *)

MaxCalls == 3

\* <<course_name, topic>> and <<quiz_topic, difficulty>> as a request gives them.
ExamSubjects == { <<<<"c","s">>, Str(<<"t">>)>>, <<<<>>, Str(<<"t">>)>>,
                  <<<<"c","s">>, NoneV>> }
QuizSubjects == { <<<<"t">>, 3>>, <<<<>>, 3>>, <<<<"t">>, 6>> }

Prompt20 == <<"e","x","p","l","a","i","n"," ","p","h","o","t","o","s","y","n",
              "t","h","e","s">>

Prompts == { <<"h","i">>, Prompt20 \o <<"i","s">>, Prompt20 \o <<"!">> }

\* The insert into the shared table is reached only by a shareable request.
DbOutcomes(p) == IF p.is_sharable THEN BOOLEAN ELSE {TRUE}

InitGen == IdleValidator /\ IdleGrade /\ IdleFlow

NextGen ==
    \/ /\ calls.gen < MaxCalls
       /\ \E u \in CurrentUsers, x \in ExamSubjects, sh \in BOOLEAN :
             generate_exam_route(u, x[1], x[2], sh)
    \/ /\ calls.gen < MaxCalls
       /\ \E u \in CurrentUsers, x \in QuizSubjects, sh \in BOOLEAN :
             generate_quiz_route(u, x[1], x[2], sh)
    \/ \E p \in Suspended("exam"), ai \in AIOutcomes :
          \E db_ok \in DbOutcomes(p) : generate_exam_route_resume(p, ai, db_ok)
    \/ \E p \in Suspended("quiz"), ai \in AIOutcomes :
          \E db_ok \in DbOutcomes(p) : generate_quiz_route_resume(p, ai, db_ok)

SpecGen == InitGen /\ [][NextGen]_vars

-----------------------------------------------------------------------------
(* The AI teacher chat under concurrent requests.                          *)

NextChat ==
    \/ /\ calls.gen < MaxCalls
       /\ \E u \in CurrentUsers, pr \in Prompts : ai_teacher_chat_route(u, pr)
    \/ \E p \in Suspended("teacher"), ok \in BOOLEAN :
          ai_teacher_chat_route_resume(p, ok)

SpecChat == InitGen /\ [][NextChat]_vars


-----------------------------------------------------------------------------
(* Fetching a shared assessment and submitting answers to it.              *)

Digits == <<"0","1","2","3","4","5","6","7","8","9">>

\* str(idx) for the indexes a question list has.
str_int(idx) == <<Digits[idx + 1]>>

Rows(table, share_id) == { i \in 1..Len(table) : table[i].id = share_id }

FetchFail(message) == [success |-> FALSE, message |-> message, data |-> <<>>]

\* .eq("id", share_id).single().execute(): single() raises APIError unless
\* exactly one row matches; a failing collaborator raises another exception.
get_shared_exam(share_id, db) ==
    IF db = "fetch_fails"
    THEN FetchFail("A server error occurred while fetching the exam.")
    ELSE IF Rows(shared_exams, share_id) = {}
    THEN FetchFail("Exam not found or unavailable.")
    ELSE [success |-> TRUE, message |-> "",
          data |-> shared_exams[CHOOSE i \in Rows(shared_exams, share_id) : TRUE].data]

get_shared_quiz(share_id, db) ==
    IF db = "fetch_fails"
    THEN FetchFail("A server error occurred while fetching the quiz.")
    ELSE IF Rows(shared_quizzes, share_id) = {}
    THEN FetchFail("Quiz not found or unavailable.")
    ELSE [success |-> TRUE, message |-> "",
          data |-> shared_quizzes[CHOOSE i \in Rows(shared_quizzes, share_id) : TRUE].data]

\* The comparison without trimming and case folding.
exam_answer_exact(user_answers, idx, q) ==
    dict_get(user_answers, str_int(idx), <<>>) = q["answer"].v

\* user_answers.get(str(idx), "").strip().upper() == q['answer'].strip().upper()
exam_answer_correct(user_answers, idx, q) ==
    upper(strip(dict_get(user_answers, str_int(idx), <<>>)))
        = upper(strip(q["answer"].v))

\* user_answers.get(str(idx), "").strip().lower() == q.get('answer', '').strip().lower()
quiz_answer_correct(user_answers, idx, q) ==
    lower(strip(dict_get(user_answers, str_int(idx), <<>>)))
        = lower(strip(dict_get(q, "answer", Str(<<>>)).v))

\* request.user_answers.get(str(idx)) == q.get('answer')
route_answer_correct(user_answers, idx, q) ==
    /\ has_key(user_answers, str_int(idx))
    /\ has_key(q, "answer")
    /\ user_answers[str_int(idx)] = q["answer"].v

exam_score(exam_data, user_answers) ==
    Cardinality({ idx \in 0..(Len(exam_data) - 1) :
                    exam_answer_correct(user_answers, idx, exam_data[idx + 1]) })

quiz_score(quiz_data, user_answers) ==
    Cardinality({ idx \in 0..(Len(quiz_data) - 1) :
                    quiz_answer_correct(user_answers, idx, quiz_data[idx + 1]) })

route_score(quiz_data, user_answers) ==
    Cardinality({ idx \in 0..(Len(quiz_data) - 1) :
                    route_answer_correct(user_answers, idx, quiz_data[idx + 1]) })

\* A service that grades against the questions of the request body when it
\* carries some.
client_exam_data(exam_response, body) ==
    IF body.questions # <<>> THEN body.questions ELSE exam_response.data

\* A service that counts the questions up to the number of answers sent.
answered_exam_data(exam_response, body) ==
    LET n == Cardinality(DOMAIN body.user_answers)
    IN  SubSeq(exam_response.data, 1,
               IF n < Len(exam_response.data) THEN n ELSE Len(exam_response.data))

\* "exam_data = exam_response['exam_data']": the set that is graded is the
\* fetched one; whatever else the request body carried never reaches the
\* service (the request models keep user_answers and student_identifier).
graded_exam_data(exam_response, body) == exam_response.data

graded_quiz_data(quiz_fetch_response, body) == quiz_fetch_response.data

Submission(share_id, student_id, student_identifier, user_answers, score, total, g) ==
    [share_id |-> share_id, student_id |-> student_id,
     student_identifier |-> student_identifier, user_answers |-> user_answers,
     score |-> score, total_questions |-> total, percentage_score |-> g[3],
     grade |-> g[1]]

SubmitFail(message) ==
    [success |-> FALSE, message |-> message, insert |-> <<>>, score |-> 0,
     total_questions |-> 0, grade |-> "", remark |-> ""]

submit_shared_exam_results(share_id, body, student_id, student_identifier, db) ==
    LET exam_response == get_shared_exam(share_id, db)
        exam_data == graded_exam_data(exam_response, body)
        total_questions == Len(exam_data)
        score == exam_score(exam_data, body.user_answers)
        g == exam_calculate_grade(score, total_questions)
    IN  IF ~exam_response.success THEN SubmitFail(exam_response.message)
        ELSE IF db = "insert_fails" THEN SubmitFail("Failed to save submission.")
        ELSE [success |-> TRUE, message |-> "",
              insert |-> <<Submission(share_id, student_id, student_identifier,
                                      body.user_answers, score, total_questions, g)>>,
              score |-> score, total_questions |-> total_questions,
              grade |-> g[1], remark |-> g[2]]

save_shared_quiz_submission(shared_quiz_id, body, student_id, student_identifier, db) ==
    LET quiz_fetch_response == get_shared_quiz(shared_quiz_id, db)
        quiz_data == graded_quiz_data(quiz_fetch_response, body)
        total_questions == Len(quiz_data)
        score == quiz_score(quiz_data, body.user_answers)
        g == quiz_calculate_grade(score, total_questions)
    IN  IF ~quiz_fetch_response.success THEN SubmitFail(quiz_fetch_response.message)
        ELSE IF db = "insert_fails" THEN SubmitFail("Failed to save submission.")
        ELSE [success |-> TRUE, message |-> "",
              insert |-> <<Submission(shared_quiz_id, student_id, student_identifier,
                                      body.user_answers, score, total_questions, g)>>,
              score |-> score, total_questions |-> total_questions,
              grade |-> g[1], remark |-> g[2]]

SubmitOk(route, r, submission_id) ==
    [NoResponse EXCEPT !.route = route, !.status = 200, !.score = r.score,
                       !.total_questions = r.total_questions, !.grade = r.grade,
                       !.remark = r.remark, !.submission_id = submission_id]

\* A submit call on a token that exists, with persistence answering.
Served(table, share_id, db) == Rows(table, share_id) # {} /\ db = "ok"

CountCall(table_name, share_id, served) ==
    IF served
    THEN dict_set(submit_calls, <<table_name, share_id>>,
                  dict_get(submit_calls, <<table_name, share_id>>, 0) + 1)
    ELSE submit_calls

\* A submit that writes its row over the stored ones.
submit_shared_exam_overwrite(share_id, body, current_user, db) ==
    LET r == submit_shared_exam_results(share_id, body, current_user, NoneV, db)
    IN  /\ calls' = Bump(calls, "submit")
        /\ exam_submissions' = r.insert
        /\ response' = IF r.success THEN SubmitOk("exam_submit", r, 1)
                       ELSE HttpError("exam_submit", 500, r.message)
        /\ submit_calls' = CountCall("exam", share_id, Served(shared_exams, share_id, db))
        /\ UNCHANGED <<tracker_vars, pending, shared_exams, shared_quizzes,
                       quiz_submissions, guest_calls, admitted, validator_vars,
                       grade_vars>>

submit_shared_exam_route(share_id, body, current_user, db) ==
    LET student_id == current_user
        r == submit_shared_exam_results(share_id, body, student_id,
                 IF student_id.k = "none" THEN body.student_identifier ELSE NoneV, db)
    IN  /\ calls' = Bump(calls, "submit")
        /\ exam_submissions' = exam_submissions \o r.insert
        /\ response' = IF r.success
                       THEN SubmitOk("exam_submit", r, Len(exam_submissions) + 1)
                       ELSE HttpError("exam_submit", 500, r.message)
        /\ submit_calls' = CountCall("exam", share_id, Served(shared_exams, share_id, db))
        /\ UNCHANGED <<tracker_vars, pending, shared_exams, shared_quizzes,
                       quiz_submissions, guest_calls, admitted, validator_vars,
                       grade_vars>>

\* The service called as its signature asks.
save_shared_quiz_submission_call(shared_quiz_id, body, student_id, db) ==
    LET r == save_shared_quiz_submission(shared_quiz_id, body, student_id,
                                         body.student_identifier, db)
    IN  /\ calls' = Bump(calls, "submit")
        /\ quiz_submissions' = quiz_submissions \o r.insert
        /\ response' = IF r.success
                       THEN SubmitOk("quiz_service", r, Len(quiz_submissions) + 1)
                       ELSE HttpError("quiz_service", 500, r.message)
        /\ submit_calls' = CountCall("quiz", shared_quiz_id,
                                     Served(shared_quizzes, shared_quiz_id, db))
        /\ UNCHANGED <<tracker_vars, pending, shared_exams, shared_quizzes,
                       exam_submissions, guest_calls, admitted, validator_vars,
                       grade_vars>>

\* The parameters of save_shared_quiz_submission, and the keyword arguments
\* submit_shared_quiz_route calls it with.
SaveParameters ==
    {"supabase", "shared_quiz_id", "user_answers", "student_id", "student_identifier"}

RouteKeywords ==
    {"supabase", "shared_quiz_id", "student_id", "user_answers", "score",
     "total_questions"}

\* "grade, remark = calculate_grade(score, total_questions)" unpacks into two
\* names; a failed unpacking or call raises, and "except Exception" answers 500.
submit_shared_quiz_route(share_id, body, db) ==
    LET quiz_fetch_response == get_shared_quiz(share_id, db)
        quiz_data == quiz_fetch_response.data
        score == route_score(quiz_data, body.user_answers)
        total_questions == Len(quiz_data)
        g == quiz_calculate_grade(score, total_questions)
        raised == Len(g) # 2 \/ ~(RouteKeywords \subseteq SaveParameters)
        r == save_shared_quiz_submission(share_id, body, NoneV, NoneV, db)
    IN  /\ calls' = Bump(calls, "submit")
        /\ IF ~quiz_fetch_response.success
           THEN /\ response' = HttpError("quiz_submit",
                       IF quiz_fetch_response.message = "Quiz not found." THEN 404 ELSE 500,
                       quiz_fetch_response.message)
                /\ UNCHANGED quiz_submissions
           ELSE IF raised
           THEN /\ response' = HttpError("quiz_submit", 500,
                       "An unexpected error occurred while submitting your quiz answers.")
                /\ UNCHANGED quiz_submissions
           ELSE /\ quiz_submissions' = quiz_submissions \o r.insert
                /\ response' = IF r.success
                               THEN [SubmitOk("quiz_submit", r, Len(quiz_submissions) + 1)
                                       EXCEPT !.score = score, !.grade = g[1],
                                              !.remark = g[2]]
                               ELSE HttpError("quiz_submit", 500, r.message)
        /\ submit_calls' = CountCall("quiz", share_id,
                                     Served(shared_quizzes, share_id, db))
        /\ UNCHANGED <<tracker_vars, pending, shared_exams, shared_quizzes,
                       exam_submissions, guest_calls, admitted, validator_vars,
                       grade_vars>>

-----------------------------------------------------------------------------
(* Sharing end to end: sets are generated, then taken through their token. *)

MaxShared == 1
MaxSubmits == 2

AllCorrect ==
    (<<"0">> :> <<"B">>) @@ (<<"1">> :> <<"C">>) @@ (<<"2">> :> <<"B">>)
    @@ (<<"3">> :> <<"A">>)

ThreeOfFour ==
    (<<"0">> :> <<" ","b"," ">>) @@ (<<"1">> :> <<"c">>) @@ (<<"2">> :> <<"B">>)
    @@ (<<"3">> :> <<"D">>)

\* Two answers and a key that is no index of any set.
TrueFalse ==
    (<<"0">> :> <<" ","T","R","U","E">>) @@ (<<"1">> :> <<"a">>)
    @@ (<<"7">> :> <<"A">>)

AnswerMaps == {AllCorrect, ThreeOfFour, TrueFalse}

\* A question set a client may put in its request body beside the answers.
ClientQuestions ==
    << Q(Str(<<"D">>), Opts4, Expl), Q(Str(<<"D">>), Opts4, Expl),
       Q(Str(<<"D">>), Opts4, Expl), Q(Str(<<"D">>), Opts4, Expl) >>

Bodies ==
    [user_answers : AnswerMaps, student_identifier : {Str(<<"s","a","m">>)},
     questions : {<<>>, ClientQuestions}]

ShareIds == 1..(MaxShared + 1)

DbKinds == {"ok", "fetch_fails", "insert_fails"}

FetchKinds == {"ok", "fetch_fails"}

ValidExamSubject == <<<<"c","s">>, Str(<<"t">>)>>
ValidQuizSubject == <<<<"t">>, 3>>

Init == IdleValidator /\ IdleGrade /\ IdleFlow

Next ==
    \/ /\ calls.gen < MaxShared
       /\ \E u \in CurrentUsers, sh \in BOOLEAN :
             generate_exam_route(u, ValidExamSubject[1], ValidExamSubject[2], sh)
    \/ /\ calls.gen < MaxShared
       /\ \E u \in CurrentUsers, sh \in BOOLEAN :
             generate_quiz_route(u, ValidQuizSubject[1], ValidQuizSubject[2], sh)
    \/ \E p \in Suspended("exam"), ai \in GoodAIOutcomes :
          \E db_ok \in DbOutcomes(p) : generate_exam_route_resume(p, ai, db_ok)
    \/ \E p \in Suspended("quiz"), ai \in GoodAIOutcomes :
          \E db_ok \in DbOutcomes(p) : generate_quiz_route_resume(p, ai, db_ok)
    \/ /\ calls.submit < MaxSubmits
       /\ \E share_id \in ShareIds, body \in Bodies, u \in CurrentUsers,
             db \in DbKinds : submit_shared_exam_route(share_id, body, u, db)
    \/ /\ calls.submit < MaxSubmits
       /\ \E share_id \in ShareIds, body \in Bodies, u \in CurrentUsers,
             db \in DbKinds : save_shared_quiz_submission_call(share_id, body, u, db)
    \/ /\ calls.submit < MaxSubmits
       /\ \E share_id \in ShareIds, body \in Bodies, db \in FetchKinds :
             submit_shared_quiz_route(share_id, body, db)

Spec == Init /\ [][Next]_vars

-----------------------------------------------------------------------------
(* The performance comparison.  The percentile is the exact rational of    *)
(* (better_than_count / len) * 100; for the populations checked here the   *)
(* float compares with 90, 75 and 50 and prints with .0f as it does.       *)

MaxPopulation == 3

\* A comparison that counts a tie as better-than.
pct_at_least(p, q) == p.num * q.den >= q.num * p.den

\* "current_score_percentage > p"
better_than(current, p) == pct_gt(current, p)

\* "[sub['percentage_score'] for sub in response.data
\*   if sub['percentage_score'] is not None]" over the rows of the token.
RECURSIVE all_percentages(_, _)
all_percentages(submissions, share_id) ==
    IF submissions = <<>> THEN <<>>
    ELSE (IF /\ Head(submissions).share_id = share_id
             /\ Head(submissions).percentage_score # NoneV
          THEN <<Head(submissions).percentage_score>> ELSE <<>>)
         \o all_percentages(Tail(submissions), share_id)

RECURSIVE better_than_count(_, _)
better_than_count(percentages, current) ==
    IF percentages = <<>> THEN 0
    ELSE (IF better_than(current, Head(percentages)) THEN 1 ELSE 0)
         + better_than_count(Tail(percentages), current)

\* A comparison that goes on with an empty population.
some_population(percentages) == FALSE

\* "if not all_percentages:"
no_population(percentages) == percentages = <<>>

\* f"{percentile:.0f}": the nearest integer, ties to even.
format_0f(percentile) ==
    LET q == percentile.num \div percentile.den
        r == percentile.num % percentile.den
    IN  IF 2 * r < percentile.den THEN q
        ELSE IF 2 * r > percentile.den THEN q + 1
        ELSE IF q % 2 = 0 THEN q ELSE q + 1

\* The message as <<text before the number, the number, text after it>>.
comparison_message(percentile) ==
    IF pct_geq(percentile, 90)
    THEN <<"Outstanding! You performed better than ", format_0f(percentile),
           "% of test takers.">>
    ELSE IF pct_geq(percentile, 75)
    THEN <<"Excellent! You performed better than ", format_0f(percentile),
           "% of test takers.">>
    ELSE IF pct_geq(percentile, 50)
    THEN <<"Good job! You performed better than ", format_0f(percentile),
           "% of test takers.">>
    ELSE <<"You performed better than ", format_0f(percentile),
           "% of test takers. Keep studying!">>

NoComparison(text) == [success |-> TRUE, comparison_message |-> <<text>>]

performance_comparison(submissions, share_id, current, db_ok, first_text) ==
    LET percentages == all_percentages(submissions, share_id)
        count == better_than_count(percentages, current)
    IN  IF ~db_ok
        THEN [success |-> FALSE, message |-> "Could not retrieve comparison data."]
        ELSE IF no_population(percentages)
        THEN NoComparison("No other submissions yet for comparison.")
        ELSE IF Len(percentages) > 0
        THEN LET percentile == Frac(count * 100, Len(percentages))
             IN  [success |-> TRUE,
                  comparison_message |-> comparison_message(percentile),
                  percentile |-> percentile]
        ELSE NoComparison(first_text)

get_exam_performance_comparison(shared_exam_id, current_score_percentage, db_ok) ==
    performance_comparison(exam_submissions, shared_exam_id,
                           current_score_percentage, db_ok,
                           "Be the first to set the bar for this exam!")

get_quiz_performance_comparison(shared_quiz_id, current_score_percentage, db_ok) ==
    performance_comparison(quiz_submissions, shared_quiz_id,
                           current_score_percentage, db_ok,
                           "Be the first to set the bar for this quiz!")

\* The columns the comparison reads of a stored submission.
PopulationRow(share_id, percentage_score) ==
    [share_id |-> share_id, percentage_score |-> percentage_score]

StoredPercentages == {NoneV, Frac(50, 1), Frac(75, 1)}

PopulationRows ==
    { PopulationRow(share_id, pct) : share_id \in 1..2, pct \in StoredPercentages }

Populations == UNION { [1..n -> PopulationRows] : n \in 0..MaxPopulation }

CurrentPercentages == {Frac(50, 1), Frac(80, 1)}

InitCompare ==
    /\ \E population \in Populations, table \in {"exam", "quiz"} :
          /\ exam_submissions = IF table = "exam" THEN population ELSE <<>>
          /\ quiz_submissions = IF table = "quiz" THEN population ELSE <<>>
    /\ compare_in \in {1} \X CurrentPercentages
    /\ compare_out = EmptyDict
    /\ grade_in = <<0, 0>> /\ grade_out = <<>>
    /\ IdleValidator
    /\ exam_tracker = EmptyDict /\ quiz_tracker = EmptyDict
    /\ teacher_tracker = EmptyDict
    /\ pending = EmptyDict /\ response = NoResponse
    /\ shared_exams = <<>> /\ shared_quizzes = <<>>
    /\ calls = [gen |-> 0, submit |-> 0]
    /\ guest_calls = [f \in Features |-> 0]
    /\ admitted = [f \in Features |-> 0]
    /\ submit_calls = EmptyDict

CompareExam(db_ok) ==
    /\ DOMAIN compare_out = {}
    /\ compare_out' = get_exam_performance_comparison(compare_in[1], compare_in[2], db_ok)
    /\ UNCHANGED <<compare_in, grade_in, grade_out, validator_vars, flow_vars>>

CompareQuiz(db_ok) ==
    /\ DOMAIN compare_out = {}
    /\ compare_out' = get_quiz_performance_comparison(compare_in[1], compare_in[2], db_ok)
    /\ UNCHANGED <<compare_in, grade_in, grade_out, validator_vars, flow_vars>>

\* The submitter's own row as the insert of the submit path leaves it, before
\* the comparison is asked for.
RecordExam ==
    /\ DOMAIN compare_out = {} /\ DOMAIN submit_calls = {}
    /\ exam_submissions' =
          Append(exam_submissions, PopulationRow(compare_in[1], compare_in[2]))
    /\ submit_calls' = CountCall("exam", compare_in[1], TRUE)
    /\ UNCHANGED <<compare_in, compare_out, grade_in, grade_out, validator_vars,
                   tracker_vars, pending, response, shared_exams, shared_quizzes,
                   quiz_submissions, calls, guest_calls, admitted>>

RecordQuiz ==
    /\ DOMAIN compare_out = {} /\ DOMAIN submit_calls = {}
    /\ quiz_submissions' =
          Append(quiz_submissions, PopulationRow(compare_in[1], compare_in[2]))
    /\ submit_calls' = CountCall("quiz", compare_in[1], TRUE)
    /\ UNCHANGED <<compare_in, compare_out, grade_in, grade_out, validator_vars,
                   tracker_vars, pending, response, shared_exams, shared_quizzes,
                   exam_submissions, calls, guest_calls, admitted>>

NextCompare ==
    \/ \E db_ok \in BOOLEAN : CompareExam(db_ok)
    \/ \E db_ok \in BOOLEAN : CompareQuiz(db_ok)
    \/ RecordExam
    \/ RecordQuiz

SpecCompare == InitCompare /\ [][NextCompare]_vars

-----------------------------------------------------------------------------
(* Properties.                                                             *)

Letters == {<<"A">>, <<"B">>, <<"C">>, <<"D">>}

TrueFalseLabels == {<<"T","r","u","e">>, <<"F","a","l","s","e">>}

CanonicalLabel(q) ==
    /\ Len(q["options"].v) = 4 => q["answer"].v \in Letters
    /\ Len(q["options"].v) = 2 => q["answer"].v \in TrueFalseLabels

\* C1: after either validator has run, every accepted question's answer is a
\* label valid for its number of options: A, B, C or D with 4 options, True
\* or False with 2 options.
C1_CanonicalLabels ==
    vpc \in {"quiz", "exam"} =>
        \A i \in 1..Len(fixed_batch) : CanonicalLabel(fixed_batch[i])

Bands ==
    << <<70, "A", "Excellent! Distinction level.">>,
       <<60, "B", "Very Good. Keep it up.">>,
       <<50, "C", "Credit. You passed, but barely.">>,
       <<45, "D", "Pass. You need to study more.">>,
       <<40, "E", "Weak Pass. Dangerous territory.">>,
       <<0, "F", "Fail. You are not ready for this exam.">> >>

\* The first band, top-down, whose lower bound the percentage reaches.
BandOf(percentage) ==
    Bands[CHOOSE b \in 1..Len(Bands) :
            /\ percentage.num >= Bands[b][1] * percentage.den
            /\ \A a \in 1..(b - 1) : percentage.num < Bands[a][1] * percentage.den]

\* C3: both calculate_grade functions give the letter and the remark of the
\* first band, top-down, whose inclusive lower bound (70 A, 60 B, 50 C, 45 D,
\* 40 E, else F) the percentage reaches, the percentage being score/total*100
\* (to two decimals in the quiz version); 7 of 10 (70.0) is an A and 6999 of
\* 10000 (69.99) is a B.
C3_GradeThresholds ==
    (grade_out # <<>> /\ grade_in[2] # 0) =>
        /\ \A version \in {"quiz", "exam"} :
              LET g == grade_out[version]
              IN  /\ g[1] = BandOf(g[3])[2]
                  /\ g[2] = BandOf(g[3])[3]
                  /\ version = "exam" =>
                        g[3].num * grade_in[2] = grade_in[1] * 100 * g[3].den
                  /\ version = "quiz" =>
                        LET off == g[3].num * grade_in[2]
                                     - grade_in[1] * 100 * g[3].den
                        IN  /\ 100 % g[3].den = 0
                            /\ 200 * off <= g[3].den * grade_in[2]
                            /\ -200 * off <= g[3].den * grade_in[2]
        /\ grade_in = <<7, 10>> =>
              grade_out.quiz[1] = "A" /\ grade_out.exam[1] = "A"
        /\ grade_in = <<6999, 10000>> =>
              grade_out.quiz[1] = "B" /\ grade_out.exam[1] = "B"

C3_Witness ==
    /\ grade_in = <<7, 10>>
    /\ grade_out # <<>>
    /\ grade_out.exam = <<"A", "Excellent! Distinction level.", Frac(70, 1)>>
    /\ grade_out.quiz = <<"A", "Excellent! Distinction level.", Frac(70, 1)>>

ExamCount == dict_get(exam_tracker, GuestExamId, 0)

QuizCount == dict_get(quiz_tracker, GuestQuizId, 0)

\* What one step does to a bucket whose route is `feature`: count is the
\* bucket's count before the step and count_after its count after it.
CheckAndIncrement(feature, count, count_after, limit) ==
    /\ guest_calls'[feature] = guest_calls[feature] + 1 =>
          IF count >= limit
          THEN /\ count_after = count
               /\ admitted'[feature] = admitted[feature]
               /\ pending' = pending
               /\ response'.status = 429
          ELSE /\ count_after = count + 1
               /\ admitted'[feature] = admitted[feature] + 1
               /\ pending' # pending
    /\ count_after >= count
    /\ count_after <= limit

\* C5: a guest request that finds its bucket's count at or above the limit is
\* denied and leaves the count as it was; any other guest request raises the
\* count by exactly one and is admitted; the count starts at 0, never
\* decreases and never exceeds the limit (exam and quiz generation routes).
C5_CheckAndIncrement ==
    /\ ExamCount = 0 /\ QuizCount = 0
    /\ [][ /\ CheckAndIncrement("exam", ExamCount, ExamCount', EXAM_GUEST_LIMIT)
           /\ CheckAndIncrement("quiz", QuizCount, QuizCount', QUIZ_GUEST_LIMIT)
         ]_vars

C5_Witness ==
    /\ ExamCount = EXAM_GUEST_LIMIT
    /\ QuizCount = QUIZ_GUEST_LIMIT
    /\ response.status = 429
    /\ guest_calls["exam"] + guest_calls["quiz"] = 3

GuestsWaiting(feature) ==
    { p \in Suspended(feature) : startswith(p.user_id, GuestPrefix) }

\* C6: however the handlers of the guest requests on one bucket (limit 1)
\* interleave, exactly one of the requests made so far has been admitted and
\* every other one denied.
C6_ExactlyOneAdmitted ==
    \A feature \in {"exam", "quiz"} :
        /\ admitted[feature] = IF guest_calls[feature] = 0 THEN 0 ELSE 1
        /\ \A p \in GuestsWaiting(feature) : pending[p] = 1
        /\ Cardinality(GuestsWaiting(feature)) <= 1

\* Three guest requests on the exam bucket, the later two arriving while the
\* admitted one still waits for its service call.
C6_Witness ==
    /\ guest_calls["exam"] = 3
    /\ admitted["exam"] = 1
    /\ GuestsWaiting("exam") # {}
    /\ response.route = "exam_generate" /\ response.status = 429

GuestLimit(feature) ==
    CASE feature = "exam" -> EXAM_GUEST_LIMIT
      [] feature = "quiz" -> QUIZ_GUEST_LIMIT
      [] feature = "teacher" -> TEACHER_GUEST_LIMIT

\* C7: for every guest-enabled feature (exam generation, quiz generation, AI
\* teacher chat) the number of anonymous requests admitted since the process
\* started never exceeds the feature's GUEST_LIMIT, whatever the requests hold.
C7_AdmittedWithinLimit ==
    \A feature \in Features : admitted[feature] <= GuestLimit(feature)

IsGuestId(user_id) == startswith(user_id, GuestPrefix)

\* C10: a row of shared_exams or shared_quizzes is inserted, and a share_id
\* returned, only by a request with is_sharable true whose creator is no
\* guest; no stored row has a guest creator_id and no request with
\* is_sharable false is answered with a share_id.
C10_ShareTokenOnlyForUsers ==
    /\ [](\A t \in {shared_exams, shared_quizzes} :
             \A i \in 1..Len(t) : ~IsGuestId(t[i].creator_id))
    /\ [][ \A p \in DOMAIN pending :
              (pending' = resume(pending, p)) =>
                 /\ (Len(shared_exams') # Len(shared_exams)
                     \/ Len(shared_quizzes') # Len(shared_quizzes)
                     \/ response'.share_id # 0)
                       => (p.is_sharable /\ ~IsGuestId(p.user_id))
                 /\ ~p.is_sharable => response'.share_id = 0
         ]_vars

\* A registered user's shareable set is stored under token 1 and a guest's
\* shareable request is turned down.
C10_Witness ==
    /\ Len(shared_exams) = 1
    /\ shared_exams[1].creator_id \in UserIds
    /\ response.route = "exam_generate" /\ response.status = 400
    /\ response.detail = "Guest users cannot create sharable exams. Please log in to use this feature."

\* The stored set a token names (rows are only ever appended).
StoredSet(table, share_id) == table[CHOOSE i \in Rows(table, share_id) : TRUE]

\* The indexes whose submitted answer, trimmed and lower-cased, is the
\* question's label lower-cased; an index without an answer is not among them.
CorrectIndexes(questions, user_answers) ==
    { idx \in 0..(Len(questions) - 1) :
        /\ has_key(user_answers, str_int(idx))
        /\ lower(strip(user_answers[str_int(idx)]))
             = lower(questions[idx + 1]["answer"].v) }

GradedRight(table, submissions) ==
    \A i \in 1..Len(submissions) :
        submissions[i].score =
            Cardinality(CorrectIndexes(StoredSet(table, submissions[i].share_id).data,
                                       submissions[i].user_answers))

SubmitRoutes == {"exam_submit", "quiz_service", "quiz_submit"}

PersistenceMessages ==
    {"Exam not found or unavailable.", "Quiz not found or unavailable.",
     "A server error occurred while fetching the exam.",
     "A server error occurred while fetching the quiz.",
     "Failed to save submission."}

\* C2: on each grading path of a shared assessment (exam submit service, quiz
\* submit service, quiz submit route) the score is the number of indexes
\* whose submitted answer, trimmed and compared without regard to case, is
\* the question's label; a missing answer counts as incorrect, and grading
\* raises no error: a submit call fails only when persistence does.
C2_GradingCounts ==
    /\ GradedRight(shared_exams, exam_submissions)
    /\ GradedRight(shared_quizzes, quiz_submissions)
    /\ (response.route \in SubmitRoutes /\ response.status # 200)
          => response.detail \in PersistenceMessages

\* A set of four questions with four options each, made by a registered
\* user, answered correctly on exactly three of them.
ThreeOfFourCase(table, submission) ==
    LET set == StoredSet(table, submission.share_id)
    IN  /\ ~IsGuestId(set.creator_id)
        /\ Len(set.data) = 4
        /\ \A i \in 1..4 : Len(set.data[i]["options"].v) = 4
        /\ Cardinality(CorrectIndexes(set.data, submission.user_answers)) = 3

ThreeOfFourGraded(letter) ==
    /\ \A i \in 1..Len(exam_submissions) :
          ThreeOfFourCase(shared_exams, exam_submissions[i]) =>
              /\ exam_submissions[i].score = 3
              /\ exam_submissions[i].percentage_score = Frac(75, 1)
              /\ exam_submissions[i].grade = letter
    /\ \A i \in 1..Len(quiz_submissions) :
          ThreeOfFourCase(shared_quizzes, quiz_submissions[i]) =>
              /\ quiz_submissions[i].score = 3
              /\ quiz_submissions[i].percentage_score = Frac(75, 1)
              /\ quiz_submissions[i].grade = letter

\* C4: a registered creator's shareable set of four multiple-choice
\* questions, answered correctly on exactly three of them, is recorded as a
\* Submission with score 3, percentage 75.0 and grade "B".
C4_ThreeOfFourGradeB == ThreeOfFourGraded("B")

\* C4 as the code has it: the same Submission has score 3, percentage 75.0
\* and grade "A", 75.0 being at or above the bound of 70.
C4_ThreeOfFourGradeA == ThreeOfFourGraded("A")

C4_Witness ==
    /\ Len(exam_submissions) > 0
    /\ ThreeOfFourCase(shared_exams, exam_submissions[1])
    /\ exam_submissions[1].user_answers = ThreeOfFour
    /\ exam_submissions[1].score = 3
    /\ response.route = "exam_submit" /\ response.grade = "A"

SubmissionsFor(submissions, share_id) ==
    { i \in 1..Len(submissions) : submissions[i].share_id = share_id }

\* C8: each submit call on an existing token adds exactly one Submission and
\* changes no earlier one, so a token that took k submit calls has k
\* Submissions (shared exam submit route, shared quiz submit route).
C8_OneSubmissionPerCall ==
    /\ \A share_id \in ShareIds :
          /\ Cardinality(SubmissionsFor(exam_submissions, share_id))
               = dict_get(submit_calls, <<"exam", share_id>>, 0)
          /\ Cardinality(SubmissionsFor(quiz_submissions, share_id))
               = dict_get(submit_calls, <<"quiz", share_id>>, 0)

SameResult(a, b) ==
    /\ a.score = b.score
    /\ a.total_questions = b.total_questions
    /\ a.percentage_score = b.percentage_score
    /\ a.grade = b.grade

Deterministic(submissions) ==
    \A i, j \in 1..Len(submissions) :
        (/\ submissions[i].share_id = submissions[j].share_id
         /\ submissions[i].user_answers = submissions[j].user_answers)
            => SameResult(submissions[i], submissions[j])

\* C9: a Submission is graded against the set stored under its token: its
\* total is the stored set's length and its score the stored set's score for
\* the submitted answers, so two Submissions to one token with the same
\* answers have the same score, total, percentage and grade whatever else
\* (identity, questions, answer key) their requests carried.
C9_GradedAgainstStoredSet ==
    /\ Deterministic(exam_submissions)
    /\ Deterministic(quiz_submissions)
    /\ \A i \in 1..Len(exam_submissions) :
          LET row == exam_submissions[i]
              data == StoredSet(shared_exams, row.share_id).data
          IN  /\ row.total_questions = Len(data)
              /\ row.score = exam_score(data, row.user_answers)
    /\ \A i \in 1..Len(quiz_submissions) :
          LET row == quiz_submissions[i]
              data == StoredSet(shared_quizzes, row.share_id).data
          IN  /\ row.total_questions = Len(data)
              /\ row.score = quiz_score(data, row.user_answers)

\* Two Submissions to one exam with the same answers from different takers.
C9_Witness ==
    /\ Len(exam_submissions) = 2
    /\ exam_submissions[1].share_id = exam_submissions[2].share_id
    /\ exam_submissions[1].user_answers = ThreeOfFour
    /\ exam_submissions[2].user_answers = ThreeOfFour
    /\ exam_submissions[1].student_id # exam_submissions[2].student_id
    /\ exam_submissions[1].score = 3

GuestShareMessages ==
    {"Guest users cannot create sharable exams. Please log in to use this feature.",
     "Guest users cannot create sharable quizzes. Please log in."}

\* A request the service has no reason of its own to turn down.
WellFormedRequest(p) ==
    /\ p.name # <<>>
    /\ p.feature = "exam" => truthy_text(p.topic)
    /\ p.feature = "quiz" => p.difficulty \in 1..5

EmptySetMessage == "AI generated invalid questions. Please try again."

GenerationFailures ==
    {"AI generated an invalid exam format. Please try generating again.",
     "AI returned an invalid quiz format. Try again.", EmptySetMessage}

\* C11: a guest's request for a shareable assessment ends as a draft: unless
\* generation itself fails, the questions are generated and returned with
\* status 200 and without a share token, not as an error.
C11_GuestShareableDraft ==
    [][ \A p \in DOMAIN pending :
           (/\ pending' = resume(pending, p)
            /\ p.feature \in {"exam", "quiz"}
            /\ IsGuestId(p.user_id) /\ p.is_sharable /\ WellFormedRequest(p))
              => \/ /\ response'.status = 200
                    /\ response'.data # <<>>
                    /\ response'.share_id = 0
                 \/ response'.detail \in GenerationFailures
      ]_vars

\* C12: when validation leaves no question, generation answers with a
\* failure, inserts no row and returns no share_id; no stored set is empty.
C12_EmptySetNotPersisted ==
    /\ [](\A t \in {shared_exams, shared_quizzes} :
             \A i \in 1..Len(t) : t[i].data # <<>>)
    /\ [][ response'.detail = EmptySetMessage =>
              /\ response'.status = 400
              /\ response'.share_id = 0 /\ response'.data = <<>>
              /\ shared_exams' = shared_exams /\ shared_quizzes' = shared_quizzes
         ]_vars
    /\ [](response.status = 200 /\ response.route \in {"exam_generate", "quiz_generate"}
             => response.data # <<>>)

\* A batch without a valid question has just been turned down while an
\* earlier shareable set is stored.
C12_Witness ==
    /\ response.detail = EmptySetMessage
    /\ response.status = 400
    /\ Len(shared_exams) = 1
    /\ shared_exams[1].data # <<>>

Validated == vpc \in {"quiz", "exam"}

EmptyValue(value) ==
    \/ value.k = "none"
    \/ value.k \in {"str", "list"} /\ value.v = <<>>

\* A question the validator is to drop: a field absent or empty, or options
\* that are not a list of exactly 2 or exactly 4 entries.
MustReject(q) ==
    \/ \E key \in RequiredKeys : ~has_key(q, key) \/ EmptyValue(q[key])
    \/ q["options"].k # "list"
    \/ Len(q["options"].v) \notin {2, 4}

\* C13: the validator drops every question that lacks one of question text,
\* options, answer and explanation or has it empty, and every question whose
\* options are not exactly 2 or exactly 4: at most the other questions of
\* the batch are returned.
C13_RejectsIncomplete ==
    Validated =>
        Len(fixed_batch)
          <= Cardinality({ i \in 1..Len(raw_batch) : ~MustReject(raw_batch[i]) })

\* What the validator that ran returns for a batch of this one question.
Alone(q) ==
    IF vpc = "quiz" THEN validate_and_fix_quiz_questions(<<q>>)
    ELSE validate_and_fix_exam_questions(<<q>>)

KeptAlone(i) == Alone(raw_batch[i]) # <<>>

KeptIndexes == SelectSeq([i \in 1..Len(raw_batch) |-> i], KeptAlone)

SameQuestion(a, b) == without_key(a, "answer") = without_key(b, "answer")

\* C14: the returned list is the input with the bad questions taken out and
\* nothing else changed in number or order: a question is dropped from a
\* batch exactly when it is dropped on its own, and the k-th survivor is the
\* k-th such input question; five questions of which the third has no
\* explanation give the other four in their order.
C14_OrderPreservingSubsequence ==
    Validated =>
        /\ Len(fixed_batch) = Len(KeptIndexes)
        /\ \A k \in 1..Len(fixed_batch) :
              /\ SameQuestion(fixed_batch[k], raw_batch[KeptIndexes[k]])
              /\ <<fixed_batch[k]>> = Alone(raw_batch[KeptIndexes[k]])
        /\ raw_batch = FiveBatch =>
              /\ Len(fixed_batch) = 4
              /\ \A k \in 1..4 :
                    SameQuestion(fixed_batch[k],
                                 FiveBatch[IF k < 3 THEN k ELSE k + 1])

C14_Witness ==
    /\ raw_batch = FiveBatch
    /\ vpc = "quiz"
    /\ Len(fixed_batch) = 4
    /\ fixed_batch[3]["explanation"] = Str(<<"e","4">>)
    /\ fixed_batch[3]["answer"] = Str(<<"B">>)

IsLetter(answer) == Len(answer) = 1 /\ upper(answer) \in Letters

IsTrueFalse(answer) == lower(answer) \in {<<"t","r","u","e">>, <<"f","a","l","s","e">>}

Matches(answer, option_text) ==
    \/ lower(answer) = lower(option_text)
    \/ contains(answer, option_text)
    \/ contains(option_text, answer)

MatchingOptions(answer, options) ==
    { k \in 1..Len(options) : Matches(answer, options[k].v) }

\* A question with its four fields as text and a list of text options, of a
\* length the validator that ran admits.
TextQuestion(q, lengths) ==
    /\ \A key \in RequiredKeys : has_key(q, key)
    /\ q["question"].k = "str" /\ q["explanation"].k = "str"
    /\ q["answer"].k = "str"
    /\ q["options"].k = "list"
    /\ Len(q["options"].v) \in lengths
    /\ \A k \in 1..Len(q["options"].v) : q["options"].v[k].k = "str"

Admitted == IF vpc = "quiz" THEN {2, 4} ELSE {4}

\* The label the first matching option gives.
FirstMatchLabel(q) ==
    LET options == q["options"].v
        hits == MatchingOptions(strip(q["answer"].v), options)
        first == CHOOSE k \in hits : \A other \in hits : k <= other
    IN  IF Len(options) = 4 THEN <<(<<"A", "B", "C", "D">>)[first]>>
        ELSE capitalize(options[first].v)

NoRuleMatches(q) ==
    /\ ~IsLetter(strip(q["answer"].v))
    /\ ~IsTrueFalse(strip(q["answer"].v))
    /\ MatchingOptions(strip(q["answer"].v), q["options"].v) = {}

DefaultsAndStays(lengths) ==
    Validated =>
        \A i \in 1..Len(raw_batch) :
            LET q == raw_batch[i]
            IN  (TextQuestion(q, lengths) /\ NoRuleMatches(q))
                   => /\ batch[i]["answer"] =
                           Str(IF Len(q["options"].v) = 4 THEN <<"A">>
                               ELSE <<"T","r","u","e">>)
                      /\ \E k \in 1..Len(fixed_batch) : fixed_batch[k] = batch[i]

\* C16: a raw answer that no rule matches ("xyz") gets the label A with 4
\* options and True with 2 options, and the question is accepted, in either
\* validator.
C16_DefaultLabel == DefaultsAndStays({2, 4})

\* C16 as the code has it: the same, for the questions the validator that
\* ran admits: 2 or 4 options in the quiz validator, 4 options in the exam
\* validator, which drops every question with 2 options.
C16_DefaultLabelAdmitted == DefaultsAndStays(Admitted)

C16_Witness ==
    /\ vpc = "quiz"
    /\ Len(raw_batch) = 2
    /\ raw_batch[1] = Q(Str(<<"x","y","z">>), Opts4, Expl)
    /\ raw_batch[2] = Q(Str(<<"x","y","z">>), OptsTF, Expl)
    /\ fixed_batch[1]["answer"] = Str(<<"A">>)
    /\ fixed_batch[2]["answer"] = Str(<<"T","r","u","e">>)

\* C17: normalization is total: a question with its four fields and 2 or 4
\* options is never dropped, whatever the form of its answer or of its
\* option entries (text or not); it gets the default label instead. So at
\* least the questions of that shape are returned.
C17_NormalizationTotal ==
    Validated =>
        Len(fixed_batch)
          >= Cardinality({ i \in 1..Len(raw_batch) : ~MustReject(raw_batch[i]) })

Revalidated == vpc \in {"quiz_again", "exam_again"}

\* Exactly one rule applies to the raw answer: it is a letter, or it is
\* true/false, or it matches exactly one option.
Unambiguous(q) ==
    LET answer == strip(q["answer"].v)
    IN  (IF IsLetter(answer) THEN 1 ELSE 0) + (IF IsTrueFalse(answer) THEN 1 ELSE 0)
          + Cardinality(MatchingOptions(answer, q["options"].v)) = 1

\* C18: normalization is idempotent: for a question with an unambiguous raw
\* answer, the validator run again on the list it has rewritten in place
\* leaves the label the first run gave.
C18_Idempotent ==
    Revalidated =>
        \A i \in 1..Len(raw_batch) :
            (/\ TextQuestion(raw_batch[i], IF vpc = "quiz_again" THEN {2, 4} ELSE {4})
             /\ Unambiguous(raw_batch[i]))
               => rerun.batch[i]["answer"] = batch[i]["answer"]

\* The stored submissions of a token that carry a percentage.
PopulationOf(submissions, share_id) ==
    { i \in 1..Len(submissions) :
         /\ submissions[i].share_id = share_id
         /\ submissions[i].percentage_score # NoneV }

StrictlyBelow(submissions, share_id, current) ==
    { i \in PopulationOf(submissions, share_id) :
         submissions[i].percentage_score.num * current.den
            < current.num * submissions[i].percentage_score.den }

PercentileOver(submissions, out) ==
    LET population == PopulationOf(submissions, compare_in[1])
        below == StrictlyBelow(submissions, compare_in[1], compare_in[2])
    IN  population # {} /\ out.success
           => /\ has_key(out, "percentile")
              /\ out.percentile
                    = Frac(100 * Cardinality(below), Cardinality(population))

\* C19: over a non-empty population the percentile is the number of stored
\* percentages strictly below the current one, divided by the population
\* size, times 100; an equal percentage is not counted.
C19_PercentileStrictlyLess ==
    [][ /\ (\E db_ok \in BOOLEAN : CompareExam(db_ok))
           => PercentileOver(exam_submissions, compare_out')
        /\ (\E db_ok \in BOOLEAN : CompareQuiz(db_ok))
           => PercentileOver(quiz_submissions, compare_out')
      ]_vars

\* 50.0 against the population [50, 50, 50] gives the percentile 0.0.
C19_Witness ==
    /\ Len(exam_submissions) = 3
    /\ \A i \in 1..3 : exam_submissions[i] = PopulationRow(1, Frac(50, 1))
    /\ compare_in = <<1, Frac(50, 1)>>
    /\ has_key(compare_out, "percentile")
    /\ compare_out.percentile = Frac(0, 1)

NoSubmissionsYet ==
    [success |-> TRUE,
     comparison_message |-> <<"No other submissions yet for comparison.">>]

\* C20: with no stored submission of the token that carries a percentage, a
\* comparison whose read succeeds returns success with the no-comparison
\* message and no percentile.
C20_EmptyPopulation ==
    [][ /\ (CompareExam(TRUE) /\ PopulationOf(exam_submissions, compare_in[1]) = {})
           => compare_out' = NoSubmissionsYet
        /\ (CompareQuiz(TRUE) /\ PopulationOf(quiz_submissions, compare_in[1]) = {})
           => compare_out' = NoSubmissionsYet
      ]_vars

\* The token's only stored rows carry no percentage.
C20_Witness ==
    /\ quiz_submissions = <<>>
    /\ Len(exam_submissions) >= 2
    /\ \E i \in 1..Len(exam_submissions) :
          exam_submissions[i] = PopulationRow(1, NoneV)
    /\ PopulationOf(exam_submissions, compare_in[1]) = {}
    /\ compare_out = NoSubmissionsYet

OwnRecorded(table_name) == has_key(submit_calls, <<table_name, compare_in[1]>>)

\* The stored rows without the submitter's own, which is the last one recorded.
Others(submissions) == SubSeq(submissions, 1, Len(submissions) - 1)

ComparedWithOthers(submissions, out) ==
    /\ PopulationOf(Others(submissions), compare_in[1]) = {}
          => out = NoSubmissionsYet
    /\ PercentileOver(Others(submissions), out)

\* C21: a comparison computed after the submitter's own submission was
\* recorded leaves that record out of the population: a sole submitter gets
\* the no-comparison result, and the percentile counts the other rows only.
C21_OwnSubmissionExcluded ==
    [][ /\ (CompareExam(TRUE) /\ OwnRecorded("exam"))
           => ComparedWithOthers(exam_submissions, compare_out')
        /\ (CompareQuiz(TRUE) /\ OwnRecorded("quiz"))
           => ComparedWithOthers(quiz_submissions, compare_out')
      ]_vars

NothingGraded == <<"N/A", "No questions graded.", Frac(0, 1)>>

\* C22: grading with a total of zero is a defined result in both services:
\* grade "N/A", remark "No questions graded.", percentage 0.0.
C22_ZeroQuestions ==
    (grade_in[2] = 0 /\ grade_out # <<>>)
       => /\ grade_in[1] = 0
          /\ grade_out.quiz = NothingGraded
          /\ grade_out.exam = NothingGraded

C22_Witness ==
    /\ grade_in = <<0, 0>>
    /\ grade_out # <<>>
    /\ grade_out.quiz[1] = "N/A" /\ grade_out.exam[2] = "No questions graded."

\* p is a number of hundredths and no hundredth is nearer to score/total*100.
RoundedTo2(p, score, total) ==
    /\ 100 % p.den = 0
    /\ LET h == p.num * (100 \div p.den)
           off == h * total - score * 10000
       IN  2 * (IF off < 0 THEN -off ELSE off) <= total

\* C23: for a total above zero the percentage that grading returns, which is
\* the one the submission stores, is score / total * 100 rounded to two
\* decimals, in the quiz service and in the exam service.
C23_PercentageRounded ==
    (grade_in[2] > 0 /\ grade_out # <<>>)
       => /\ RoundedTo2(grade_out.quiz[3], grade_in[1], grade_in[2])
          /\ RoundedTo2(grade_out.exam[3], grade_in[1], grade_in[2])

NotFoundStatus == 404

\* C24: a submit on a share token that no stored set has, with persistence
\* answering, is answered as not found (status 404, not the 500 of a server
\* failure) and records no submission.
C24_MissingTokenNotFound ==
    [][ /\ \A share_id \in ShareIds, body \in Bodies, u \in CurrentUsers :
              (/\ submit_shared_exam_route(share_id, body, u, "ok")
               /\ Rows(shared_exams, share_id) = {})
                 => /\ response'.status = NotFoundStatus
                    /\ exam_submissions' = exam_submissions
        /\ \A share_id \in ShareIds, body \in Bodies :
              (/\ submit_shared_quiz_route(share_id, body, "ok")
               /\ Rows(shared_quizzes, share_id) = {})
                 => /\ response'.status = NotFoundStatus
                    /\ quiz_submissions' = quiz_submissions
      ]_vars

ServiceUnavailable == {500, 503}

\* The insert of the shared set is reached: with persistence answering the
\* same call stores a row.
SaveAttempted(p, ai) ==
    IF p.feature = "exam"
    THEN generate_exam_questions(p.user_id, p.name, p.topic, p.is_sharable,
                                 ai, TRUE, 1).insert # <<>>
    ELSE generate_quiz_service(p.user_id, p.name, p.difficulty, p.is_sharable,
                               ai, TRUE, 1).insert # <<>>

\* C25: a failure of persistence while saving the shared set, fetching it or
\* saving a submission is answered as a server-side failure (status 500 or
\* 503) and never with status 200.
C25_PersistenceFailureReported ==
    [][ /\ \A p \in DOMAIN pending, ai \in GoodAIOutcomes :
              (/\ SaveAttempted(p, ai)
               /\ \/ generate_exam_route_resume(p, ai, FALSE)
                  \/ generate_quiz_route_resume(p, ai, FALSE))
                 => response'.status \in ServiceUnavailable
        /\ \A share_id \in ShareIds, body \in Bodies, u \in CurrentUsers,
              db \in {"fetch_fails", "insert_fails"} :
              submit_shared_exam_route(share_id, body, u, db)
                 => response'.status \in ServiceUnavailable
        /\ \A share_id \in ShareIds, body \in Bodies :
              submit_shared_quiz_route(share_id, body, "fetch_fails")
                 => response'.status \in ServiceUnavailable
      ]_vars

\* Every row of old is in new at its place, as it was.
KeptRows(old, new) ==
    Len(new) >= Len(old) /\ SubSeq(new, 1, Len(old)) = old

\* C26: stored question sets and stored submissions are never modified or
\* deleted: every step leaves each existing row as it was.
C26_RecordsImmutable ==
    [][ /\ KeptRows(shared_exams, shared_exams')
        /\ KeptRows(shared_quizzes, shared_quizzes')
        /\ KeptRows(exam_submissions, exam_submissions')
        /\ KeptRows(quiz_submissions, quiz_submissions')
      ]_vars

\* A second submission was recorded on a set that already had one.
C26_Witness ==
    /\ shared_exams # <<>>
    /\ Len(exam_submissions) = 2
    /\ exam_submissions[1] # exam_submissions[2]

TotalOfStoredSet(table, submissions) ==
    \A i \in 1..Len(submissions) :
        LET row == submissions[i]
        IN  /\ row.total_questions = Len(StoredSet(table, row.share_id).data)
            /\ row.score \in 0..row.total_questions

\* C27: every stored submission has total_questions equal to the number of
\* questions of the stored set of its token, however many answers were sent,
\* and a score between 0 and that total.
C27_TotalIsSetSize ==
    /\ TotalOfStoredSet(shared_exams, exam_submissions)
    /\ TotalOfStoredSet(shared_quizzes, quiz_submissions)

\* Three answers, one of them for an index outside the set, on four questions.
C27_Witness ==
    \E i \in 1..Len(exam_submissions) :
        /\ exam_submissions[i].user_answers = TrueFalse
        /\ exam_submissions[i].total_questions = 4
        /\ Cardinality(DOMAIN exam_submissions[i].user_answers) = 3

FourOptions(q) ==
    /\ has_key(q, "options")
    /\ q["options"].k = "list"
    /\ Len(q["options"].v) = 4

\* C28: on a batch of questions that have four options each, the exam
\* validator and the quiz validator keep the same questions in the same order
\* and give each the same answer label.
C28_ValidatorsAgree ==
    (/\ vpc \in {"quiz", "exam"}
     /\ \A i \in 1..Len(raw_batch) : FourOptions(raw_batch[i]))
       => /\ validate_and_fix_exam_questions(raw_batch)
               = validate_and_fix_quiz_questions(raw_batch)
          /\ fixed_batch = validate_and_fix_quiz_questions(raw_batch)

\* C29: for every score and total with 0 <= score <= total and total >= 1
\* the quiz calculate_grade, which rounds the percentage before the
\* thresholds, and the exam calculate_grade, which does not, return the same
\* letter and the same remark.
C29_GradesAgree ==
    (grade_in[2] >= 1 /\ grade_in[1] <= grade_in[2] /\ grade_out # <<>>)
       => /\ grade_out.quiz[1] = grade_out.exam[1]
          /\ grade_out.quiz[2] = grade_out.exam[2]

\* The two agree on every total up to MaxTotal and on 6999 of 10000.
C29_GradesAgreeOnSmallTotals ==
    (grade_in[2] >= 1 /\ grade_in # <<454, 1009>> /\ grade_out # <<>>)
       => /\ grade_out.quiz[1] = grade_out.exam[1]
          /\ grade_out.quiz[2] = grade_out.exam[2]

\* C30: an admitted guest request takes one unit of its bucket whatever comes
\* of it: the count is raised when the request is admitted, before the
\* generation service runs, and no outcome of the service changes it, so the
\* count stays equal to the number of admitted requests.
C30_AdmissionConsumesQuota ==
    /\ [](ExamCount = admitted["exam"] /\ QuizCount = admitted["quiz"])
    /\ [][ \A p \in DOMAIN pending :
              (pending' = resume(pending, p) /\ IsGuestId(p.user_id))
                 => /\ tracker_vars' = tracker_vars
                    /\ admitted' = admitted
         ]_vars

\* The only request made was a guest's, it was admitted, and its generation
\* failed: one unit is used and there is no successful generation.
C30_Witness ==
    /\ calls.gen = 1 /\ guest_calls["exam"] = 1
    /\ admitted["exam"] = 1 /\ ExamCount = 1
    /\ DOMAIN pending = {}
    /\ response.route = "exam_generate" /\ response.status = 400

====
